---- MODULE Spec2Model ----
(***************************************************************************)
(* Model of the bank ledger of OOP/FHNW/bankv2.py.                         *)
(*                                                                         *)
(* Money is counted in hundredths of the currency unit (500.0 is 50000),   *)
(* so the 1% fee and the 1% interest are exact integers for the amounts    *)
(* the model draws (whole currency units).  Account objects live in the    *)
(* sequence accts; the registry maps an identifier to the index of the     *)
(* object registered under it (0 = no entry).  An object that was replaced *)
(* in the registry still exists, as it does for a caller holding the       *)
(* reference that open_account returned.                                   *)
(***************************************************************************)
EXTENDS Integers, Sequences, FiniteSets, TLC

VARIABLES
    accts,               \* the Account objects created so far (bankv2.py:85-91)
    registry,            \* Bank._accounts: identifier -> index into accts
    journal,             \* Bank._journal
    current_timestamp,   \* Bank._current_timestamp
    account_id_counter,  \* Bank._account_id_counter
    last                 \* the last call: return value and printed message

vars == <<accts, registry, journal, current_timestamp, account_id_counter, last>>

---------------------------------------------------------------------------
(* Bounds of the model *)

(* accounts opened plus journal records written *)
MaxSize == 3

(* the largest count a query is called with *)
MaxCount == 2

(* Program constants: the limit in hundredths, the rates in percent *)
OverdraftLimit == 50000
FeeRatePercent == 1
InterestRatePercent == 1

None == "None"
FeeAccountId == "FEE-0001"

(* the inputs the operations are called with *)
TypeNames == {"youth", "Savings", "private", "gold"}
ExplicitIds == {None, "FEE-0001", "A000001"}
AccountIds == {"FEE-0001", "A000001", "A000002"}
Amounts == {-100, 0, 100, 50000}
Usages == {"", "Miete"}
Counts == {<<>>} \cup {<<n>> : n \in 0..MaxCount}

---------------------------------------------------------------------------
(* Journal and history records *)

Transaction(ts, from, to, amount, usage) ==
    [timestamp |-> ts, from_account |-> from, to_account |-> to,
     amount |-> amount, usage |-> usage]

(* a bug: the entry is recorded without its sign *)
TransactionEntry_unsigned(ts, counterparty, amount, usage) ==
    [timestamp |-> ts, counterparty |-> counterparty,
     amount |-> IF amount < 0 THEN -amount ELSE amount, usage |-> usage]

TransactionEntry(ts, counterparty, amount, usage) ==
    [timestamp |-> ts, counterparty |-> counterparty,
     amount |-> amount, usage |-> usage]

---------------------------------------------------------------------------
(* Policies *)

NoOverdraftPolicy(balance, amount) == balance >= amount

(* a bug: the amount is left out of the comparison *)
OverdraftPolicy_no_amount(limit, balance, amount) == balance >= -limit

OverdraftPolicy(limit, balance, amount) == (balance - amount) >= -limit

NoWithdrawalPolicy(balance, amount) == FALSE

NoFeePolicy(amount) == 0

(* a bug: the rate is applied as a tenth, not a hundredth *)
PercentageFeePolicy_tenth(rate, amount) == (amount * rate) \div 10

PercentageFeePolicy(rate, amount) == (amount * rate) \div 100

---------------------------------------------------------------------------
(* Account *)

Account(account_id, withdrawal_policy, fee_policy, savings) ==
    [id |-> account_id, withdrawal_policy |-> withdrawal_policy,
     fee_policy |-> fee_policy, savings |-> savings,
     balance |-> 0, active |-> TRUE, transactions |-> <<>>]

can_withdraw(a, amount) ==
    CASE a.withdrawal_policy = "NoOverdraft" -> NoOverdraftPolicy(a.balance, amount)
      [] a.withdrawal_policy = "Overdraft" -> OverdraftPolicy(OverdraftLimit, a.balance, amount)
      [] OTHER -> NoWithdrawalPolicy(a.balance, amount)

calculate_fee(a, amount) ==
    IF a.fee_policy = "PercentageFee"
    THEN PercentageFeePolicy(FeeRatePercent, amount)
    ELSE NoFeePolicy(amount)

(* a bug: the amount is added to the source account *)
withdraw_amount_adds(A, i, amount) == [A EXCEPT ![i].balance = @ + amount]

withdraw_amount(A, i, amount) == [A EXCEPT ![i].balance = @ - amount]

(* a bug: the balance is assigned, not increased *)
deposit_amount_assign(A, i, amount) == [A EXCEPT ![i].balance = amount]

deposit_amount(A, i, amount) == [A EXCEPT ![i].balance = @ + amount]

record_transaction(A, i, entry) ==
    [A EXCEPT ![i].transactions = Append(@, entry)]

(* a bug: success is reported but the flag is not cleared *)
close_keeps_active(A, i) ==
    IF A[i].balance = 0
    THEN [accts |-> A, result |-> TRUE]
    ELSE [accts |-> A, result |-> FALSE]

close(A, i) ==
    IF A[i].balance = 0
    THEN [accts |-> [A EXCEPT ![i].active = FALSE], result |-> TRUE]
    ELSE [accts |-> A, result |-> FALSE]

---------------------------------------------------------------------------
(* Bank *)

(* the state of one Bank object, as the handlers read and write it *)
Bank ==
    [accts |-> accts, registry |-> registry, journal |-> journal,
     current_timestamp |-> current_timestamp,
     account_id_counter |-> account_id_counter]

(* the object that Bank.__init__ stores in self._fee_account *)
fee_account == 1

(* a bug: the clock is read but not advanced *)
get_timestamp_stale(b) == b.current_timestamp

(* a bug: the clock advances by two *)
get_timestamp_by_two(b) == b.current_timestamp + 2

get_timestamp(b) == b.current_timestamp + 1

Digit(d) ==
    CASE d = 0 -> "0" [] d = 1 -> "1" [] d = 2 -> "2" [] d = 3 -> "3"
      [] d = 4 -> "4" [] d = 5 -> "5" [] d = 6 -> "6" [] d = 7 -> "7"
      [] d = 8 -> "8" [] OTHER -> "9"

RECURSIVE Decimal(_)
Decimal(n) == IF n < 10 THEN Digit(n) ELSE Decimal(n \div 10) \o Digit(n % 10)

RECURSIVE ZeroPad(_, _)
ZeroPad(s, width) == IF Len(s) >= width THEN s ELSE ZeroPad("0" \o s, width)

generate_account_id(b) == "A" \o ZeroPad(Decimal(b.account_id_counter), 6)

(* a bug: the type name is looked up as written *)
Lower_as_written(s) == s

Lower(s) ==
    CASE s = "Savings" -> "savings"
      [] OTHER -> s

account_factories == {"youth", "savings", "private"}

Factory(key, aid) ==
    CASE key = "youth" -> Account(aid, "NoOverdraft", "NoFee", FALSE)
      [] key = "savings" -> Account(aid, "NoOverdraft", "NoFee", TRUE)
      [] OTHER -> Account(aid, "Overdraft", "PercentageFee", FALSE)

IdOf(A, i) == IF i = 0 THEN None ELSE A[i].id

(* lines 227-245 of _execute_transaction: the postings of one transaction *)
post_transaction(b, from, to, amount, usage) ==
    LET ts == get_timestamp(b)
        a1 == IF from # 0
              THEN record_transaction(
                       withdraw_amount(b.accts, from, amount), from,
                       TransactionEntry(ts, IdOf(b.accts, to), -amount, usage))
              ELSE b.accts
        a2 == IF to # 0
              THEN record_transaction(
                       deposit_amount(a1, to, amount), to,
                       TransactionEntry(ts, IdOf(b.accts, from), amount, usage))
              ELSE a1
    IN [b EXCEPT
          !.accts = a2,
          !.current_timestamp = ts,
          !.journal = Append(@, Transaction(ts, IdOf(b.accts, from),
                                           IdOf(b.accts, to), amount, usage))]

(* a bug: the amount 0 is let through *)
execute_transaction_zero(b, from, to, amount, usage) ==
    IF amount < 0
    THEN [bank |-> b, raised |-> TRUE]
    ELSE [bank |-> post_transaction(b, from, to, amount, usage), raised |-> FALSE]

(* a bug: the timestamp is taken before the amount is checked *)
execute_transaction_early_clock(b, from, to, amount, usage) ==
    IF amount <= 0
    THEN [bank |-> [b EXCEPT !.current_timestamp = get_timestamp(b)], raised |-> TRUE]
    ELSE [bank |-> post_transaction(b, from, to, amount, usage), raised |-> FALSE]

(* _execute_transaction on the bank state b; raised = the ValueError of line 226 *)
execute_transaction(b, from, to, amount, usage) ==
    IF amount <= 0
    THEN [bank |-> b, raised |-> TRUE]
    ELSE [bank |-> post_transaction(b, from, to, amount, usage), raised |-> FALSE]

open_account(b, account_type, account_id) ==
    LET key == Lower(account_type) IN
    IF key \notin account_factories
    THEN [bank |-> b, result |-> "ValueError"]
    ELSE LET aid == IF account_id = None THEN generate_account_id(b) ELSE account_id
             cnt == IF account_id = None THEN b.account_id_counter + 1
                    ELSE b.account_id_counter
             A   == Append(b.accts, Factory(key, aid))
         IN [bank |-> [b EXCEPT
                          !.accts = A,
                          !.account_id_counter = cnt,
                          !.registry = [id \in DOMAIN b.registry \cup {aid} |->
                                           IF id = aid THEN Len(A) ELSE b.registry[id]]],
             result |-> aid]

Lookup(b, account_id) ==
    IF account_id \in DOMAIN b.registry THEN b.registry[account_id] ELSE 0

deposit_cash(b, account_id, amount) ==
    LET account == Lookup(b, account_id) IN
    IF account = 0 \/ ~b.accts[account].active
    THEN [bank |-> b, result |-> FALSE, printed |-> ""]
    ELSE LET r == execute_transaction(b, 0, account, amount, "Bareinzahlung")
         IN IF r.raised
            THEN [bank |-> r.bank, result |-> FALSE, printed |-> "Fehler bei Bareinzahlung"]
            ELSE [bank |-> r.bank, result |-> TRUE, printed |-> ""]

(* "Gebuehr" stands for the source's "Geb\u00fchr" *)
fee_usage(usage) == IF usage # "" THEN "Gebuehr: " \o usage ELSE "Gebuehr"

transfer(b, debit_account_id, credit_account_id, amount, usage) ==
    LET debit  == Lookup(b, debit_account_id)
        credit == Lookup(b, credit_account_id)
    IN
    IF debit = 0 \/ credit = 0
    THEN [bank |-> b, result |-> FALSE,
          printed |-> "Eines der angegebenen Konten existiert nicht."]
    ELSE IF ~(b.accts[debit].active /\ b.accts[credit].active)
    THEN [bank |-> b, result |-> FALSE, printed |-> "Eines der Konten ist nicht aktiv."]
    ELSE LET fee   == calculate_fee(b.accts[debit], amount)
             total == amount + fee
         IN IF ~can_withdraw(b.accts[debit], total)
            THEN [bank |-> b, result |-> FALSE, printed |-> "Nicht genuegend Deckung"]
            ELSE LET r1 == execute_transaction(b, debit, credit, amount, usage) IN
                 IF r1.raised
                 THEN [bank |-> r1.bank, result |-> FALSE,
                       printed |-> "Fehler bei der Ueberweisung"]
                 ELSE IF fee > 0
                 THEN LET r2 == execute_transaction(r1.bank, debit, fee_account,
                                                    fee, fee_usage(usage))
                      IN IF r2.raised
                         THEN [bank |-> r2.bank, result |-> FALSE,
                               printed |-> "Fehler bei der Ueberweisung"]
                         ELSE [bank |-> r2.bank, result |-> TRUE, printed |-> ""]
                 ELSE [bank |-> r1.bank, result |-> TRUE, printed |-> ""]

close_account(b, account_id) ==
    LET account == Lookup(b, account_id) IN
    IF account = 0 \/ ~b.accts[account].active
    THEN [bank |-> b, result |-> FALSE, printed |-> ""]
    ELSE IF b.accts[account].balance # 0
    THEN [bank |-> b, result |-> FALSE,
          printed |-> "Konto kann nur bei einem Saldo von 0 geschlossen werden."]
    ELSE LET c == close(b.accts, account)
         IN [bank |-> [b EXCEPT !.accts = c.accts], result |-> c.result, printed |-> ""]

(* the Python slice seq[start:] *)
slice_from(seq, start) ==
    LET n  == Len(seq)
        s0 == IF start < 0 THEN start + n ELSE start
        s  == IF s0 < 0 THEN 0 ELSE IF s0 > n THEN n ELSE s0
    IN SubSeq(seq, s + 1, n)

(* Account.get_transactions; the count is <<>> for None and <<n>> for n *)
get_transactions(a, count) ==
    IF count = <<>> THEN a.transactions
    ELSE slice_from(a.transactions, -count[1])

get_balance(b, account_id) ==
    LET account == Lookup(b, account_id) IN
    IF account # 0
    THEN [is_none |-> FALSE, value |-> b.accts[account].balance]
    ELSE [is_none |-> TRUE, value |-> 0]

get_account_transactions(b, account_id, count) ==
    LET account == Lookup(b, account_id) IN
    IF account # 0
    THEN [is_none |-> FALSE, list |-> get_transactions(b.accts[account], count)]
    ELSE [is_none |-> TRUE, list |-> <<>>]

get_bank_transactions(b, count) ==
    IF count = <<>> THEN b.journal
    ELSE slice_from(b.journal, -count[1])

(* SavingsAccount.apply_interest on the object i *)
apply_interest(b, i) ==
    LET interest == (b.accts[i].balance * InterestRatePercent) \div 100
    IN [b EXCEPT !.accts = deposit_amount(b.accts, i, interest)]

---------------------------------------------------------------------------
(* The state machine: one action per call of the public interface *)

Install(b) ==
    /\ accts' = b.accts
    /\ registry' = b.registry
    /\ journal' = b.journal
    /\ current_timestamp' = b.current_timestamp
    /\ account_id_counter' = b.account_id_counter

Size == (Len(accts) - 1) + Len(journal)

Bool(v) == IF v THEN "True" ELSE "False"

(* the last call: what its caller got back and what it printed *)
Call(op, result, printed) == [op |-> op, result |-> result, printed |-> printed]

Init ==
    /\ accts = <<Account(FeeAccountId, "NoWithdrawal", "NoFee", FALSE)>>
    /\ registry = [id \in {FeeAccountId} |-> 1]
    /\ journal = <<>>
    /\ current_timestamp = 0
    /\ account_id_counter = 1
    /\ last = Call("init", "None", "")

OpenAccount ==
    \E t \in TypeNames, id \in ExplicitIds :
        /\ Size < MaxSize
        /\ LET r == open_account(Bank, t, id) IN
             /\ Install(r.bank)
             /\ last' = Call("open_account", r.result, "")

DepositCash ==
    \E id \in AccountIds, amount \in Amounts :
        /\ Size < MaxSize
        /\ LET r == deposit_cash(Bank, id, amount) IN
             /\ Install(r.bank)
             /\ last' = Call("deposit_cash", Bool(r.result), r.printed)

Transfer ==
    \E d \in AccountIds, c \in AccountIds, amount \in Amounts, usage \in Usages :
        /\ Size < MaxSize
        /\ LET r == transfer(Bank, d, c, amount, usage) IN
             /\ Install(r.bank)
             /\ last' = Call("transfer", Bool(r.result), r.printed)

CloseAccount ==
    \E id \in AccountIds :
        LET r == close_account(Bank, id) IN
          /\ Install(r.bank)
          /\ last' = Call("close_account", Bool(r.result), r.printed)

(* interest is modelled where balance * rate is a whole number of hundredths *)
ApplyInterest ==
    \E i \in 1..Len(accts) :
        /\ accts[i].savings
        /\ (accts[i].balance * InterestRatePercent) % 100 = 0
        /\ Install(apply_interest(Bank, i))
        /\ last' = Call("apply_interest", "None", "")

(* the queries assign no field of the bank *)
GetBalance ==
    \E id \in AccountIds :
        /\ UNCHANGED <<accts, registry, journal, current_timestamp, account_id_counter>>
        /\ last' = Call("get_balance",
                        IF get_balance(Bank, id).is_none THEN "None" ELSE "float", "")

GetAccountTransactions ==
    \E id \in AccountIds, count \in Counts :
        /\ UNCHANGED <<accts, registry, journal, current_timestamp, account_id_counter>>
        /\ last' = Call("get_account_transactions",
                        LET r == get_account_transactions(Bank, id, count) IN
                        IF r.is_none THEN "None"
                        ELSE IF r.list = <<>> THEN "[]" ELSE "list", "")

GetBankTransactions ==
    \E count \in Counts :
        /\ UNCHANGED <<accts, registry, journal, current_timestamp, account_id_counter>>
        /\ last' = Call("get_bank_transactions",
                        IF get_bank_transactions(Bank, count) = <<>>
                        THEN "[]" ELSE "list", "")

Next ==
    \/ OpenAccount
    \/ DepositCash
    \/ Transfer
    \/ CloseAccount
    \/ ApplyInterest
    \/ GetBalance
    \/ GetAccountTransactions
    \/ GetBankTransactions

Spec == Init /\ [][Next]_vars

(* the ledger operations alone: open_account, deposit_cash, transfer and
   close_account, without SavingsAccount.apply_interest and the queries *)
NextLedger ==
    \/ OpenAccount
    \/ DepositCash
    \/ Transfer
    \/ CloseAccount

SpecLedger == Init /\ [][NextLedger]_vars

---------------------------------------------------------------------------
(* Properties *)

RECURSIVE SumAmounts(_)
SumAmounts(entries) ==
    IF entries = <<>> THEN 0
    ELSE entries[1].amount + SumAmounts(Tail(entries))

Registered(id) == id \in DOMAIN registry

(* C1: in every reachable state, every account's balance equals the sum of
   the signed amounts of the entries of its own history. *)
C1_BalanceIsHistorySum ==
    \A i \in 1..Len(accts) : accts[i].balance = SumAmounts(accts[i].transactions)

(* C2: a transfer that returns failure leaves every balance, history and
   active flag, the registry, the journal and the clock as they were. *)
C2_FailedTransferChangesNothing ==
    [][(last'.op = "transfer" /\ last'.result = "False")
          => UNCHANGED <<accts, registry, journal, current_timestamp,
                         account_id_counter>>]_vars

(* a transfer was denied by the debit account's withdrawal policy, in a
   state where money has already moved *)
C2_Witness ==
    /\ last.op = "transfer"
    /\ last.result = "False"
    /\ last.printed = "Nicht genuegend Deckung"
    /\ journal # <<>>

(* the conditions under which C3 says a transfer fails *)
TransferMustFail(d, c, amount) ==
    \/ ~Registered(d)
    \/ ~Registered(c)
    \/ ~accts[registry[d]].active
    \/ ~accts[registry[c]].active
    \/ amount <= 0
    \/ LET a == accts[registry[d]]
           fee == IF a.fee_policy = "PercentageFee"
                  THEN (amount * FeeRatePercent) \div 100 ELSE 0
           required == amount + fee
       IN CASE a.withdrawal_policy = "NoOverdraft" -> ~(a.balance >= required)
            [] a.withdrawal_policy = "Overdraft" ->
                   ~(a.balance - required >= -OverdraftLimit)
            [] OTHER -> TRUE

(* C3: in every reachable state and for every input, transfer returns
   failure exactly when an id is unknown, an account is inactive, the amount
   is not positive or the debit account's policy denies amount + fee. *)
C3_TransferResult ==
    \A d \in AccountIds, c \in AccountIds, amount \in Amounts, usage \in Usages :
        transfer(Bank, d, c, amount, usage).result = ~TransferMustFail(d, c, amount)

(* a transfer has succeeded, and in the state it left some transfer would be
   denied by the policy and some other would succeed *)
C3_Witness ==
    /\ last.op = "transfer"
    /\ last.result = "True"
    /\ \E d \in AccountIds, c \in AccountIds, amount \in Amounts :
          transfer(Bank, d, c, amount, "").printed = "Nicht genuegend Deckung"
    /\ \E d \in AccountIds, c \in AccountIds, amount \in Amounts :
          transfer(Bank, d, c, amount, "").result

(* what C4 says a successful transfer does, for one input *)
TransferPostings(d, c, amount, usage) ==
    LET r      == transfer(Bank, d, c, amount, usage)
        debit  == registry[d]
        credit == registry[c]
        fee    == IF accts[debit].fee_policy = "PercentageFee"
                  THEN (amount * FeeRatePercent) \div 100 ELSE 0
        memo   == IF usage = "" THEN "Gebuehr" ELSE "Gebuehr: " \o usage
        ts     == current_timestamp
    IN IF fee > 0
       THEN /\ r.bank.journal = journal \o
                  << [timestamp |-> ts + 1, from_account |-> d, to_account |-> c,
                      amount |-> amount, usage |-> usage],
                     [timestamp |-> ts + 2, from_account |-> d,
                      to_account |-> FeeAccountId, amount |-> fee, usage |-> memo] >>
            /\ r.bank.accts[debit].balance = accts[debit].balance - (amount + fee)
            /\ r.bank.accts[credit].balance = accts[credit].balance + amount
            /\ r.bank.accts[fee_account].balance = accts[fee_account].balance + fee
       ELSE /\ r.bank.journal = journal \o
                  << [timestamp |-> ts + 1, from_account |-> d, to_account |-> c,
                      amount |-> amount, usage |-> usage] >>
            /\ r.bank.accts[fee_account] = accts[fee_account]

(* C4 as stated: every successful transfer to a destination other than the
   debit account writes the principal record and, with a fee, the fee record
   next, moves amount + fee out of the debit account, exactly amount into the
   destination and exactly fee into the fee-collection account; without a
   fee it writes one record and leaves the fee-collection account alone. *)
C4_TransferPostings_Original ==
    \A d \in AccountIds, c \in AccountIds, amount \in Amounts, usage \in Usages :
        (transfer(Bank, d, c, amount, usage).result /\ d # c)
            => TransferPostings(d, c, amount, usage)

(* C4 as amended: the same, for a destination that is neither the debit
   account nor the fee-collection account itself. *)
C4_TransferPostings ==
    \A d \in AccountIds, c \in AccountIds, amount \in Amounts, usage \in Usages :
        (transfer(Bank, d, c, amount, usage).result /\ d # c
            /\ registry[c] # fee_account)
            => TransferPostings(d, c, amount, usage)

(* a transfer with a fee has just been made to an ordinary destination *)
C4_Witness ==
    /\ last.op = "transfer"
    /\ last.result = "True"
    /\ Len(journal) >= 2
    /\ journal[Len(journal)].usage = "Gebuehr: Miete"
    /\ journal[Len(journal)].to_account = FeeAccountId
    /\ journal[Len(journal) - 1].to_account # FeeAccountId
    /\ journal[Len(journal) - 1].to_account # journal[Len(journal) - 1].from_account

(* C5: no account with the no-overdraft policy has a negative balance, and no
   account with the overdraft policy is below minus its limit. *)
C5_BalanceFloor ==
    \A i \in 1..Len(accts) :
        /\ accts[i].withdrawal_policy = "NoOverdraft" => accts[i].balance >= 0
        /\ accts[i].withdrawal_policy = "Overdraft" => accts[i].balance >= -OverdraftLimit

(* an overdraft account has gone negative by a transfer and its fee *)
C5_Witness ==
    /\ last.op = "transfer"
    /\ last.result = "True"
    /\ \E i \in 1..Len(accts) :
          /\ accts[i].withdrawal_policy = "Overdraft"
          /\ accts[i].balance = -101
          /\ Len(accts[i].transactions) = 2

(* C6: deposit_cash fails and changes nothing for an unknown id, an inactive
   account or an amount <= 0; otherwise it succeeds, adds amount to that
   account only, appends one entry of +amount without counterparty to its
   history and one journal record from nobody to that id. *)
C6_DepositCash ==
    \A id \in AccountIds, amount \in Amounts :
        LET r == deposit_cash(Bank, id, amount) IN
        IF ~Registered(id) \/ ~accts[registry[id]].active \/ amount <= 0
        THEN ~r.result /\ r.bank = Bank
        ELSE LET i  == registry[id]
                 h  == r.bank.accts[i].transactions
                 j  == r.bank.journal
             IN /\ r.result
                /\ r.bank.registry = registry
                /\ Len(r.bank.accts) = Len(accts)
                /\ \A k \in 1..Len(accts) : k # i => r.bank.accts[k] = accts[k]
                /\ r.bank.accts[i].balance = accts[i].balance + amount
                /\ r.bank.accts[i].active
                /\ Len(h) = Len(accts[i].transactions) + 1
                /\ SubSeq(h, 1, Len(h) - 1) = accts[i].transactions
                /\ h[Len(h)].amount = amount
                /\ h[Len(h)].counterparty = None
                /\ Len(j) = Len(journal) + 1
                /\ SubSeq(j, 1, Len(j) - 1) = journal
                /\ j[Len(j)].from_account = None
                /\ j[Len(j)].to_account = id
                /\ j[Len(j)].amount = amount

(* a second deposit into an account has succeeded *)
C6_Witness ==
    /\ last.op = "deposit_cash"
    /\ last.result = "True"
    /\ \E i \in 1..Len(accts) :
          /\ Len(accts[i].transactions) >= 2
          /\ accts[i].transactions[Len(accts[i].transactions)].counterparty = None

(* C7: the timestamps of the journal strictly increase in journal order, so
   no two records share one. *)
C7_TimestampsIncrease ==
    \A i \in 1..Len(journal), k \in 1..Len(journal) :
        i < k => journal[i].timestamp < journal[k].timestamp

(* the journal holds a deposit, a principal and its fee record, and the last
   call was one that failed *)
C7_Witness ==
    /\ Len(journal) >= 3
    /\ \E k \in 2..Len(journal) :
          /\ journal[k].to_account = FeeAccountId
          /\ journal[k].from_account = journal[k - 1].from_account
          /\ journal[k].timestamp = journal[k - 1].timestamp + 1
    /\ last.result = "False"

(* C8: close_account fails and changes nothing for an unknown id, an inactive
   account or a non-zero balance; on an active account with balance 0 it
   succeeds and only clears that account's active flag, and closing the same
   id again right away fails and changes nothing. *)
C8_CloseAccount ==
    \A id \in AccountIds :
        LET r == close_account(Bank, id) IN
        IF ~Registered(id) \/ ~accts[registry[id]].active
              \/ accts[registry[id]].balance # 0
        THEN ~r.result /\ r.bank = Bank
        ELSE /\ r.result
             /\ r.bank = [Bank EXCEPT !.accts[registry[id]].active = FALSE]
             /\ LET again == close_account(r.bank, id)
                IN ~again.result /\ again.bank = r.bank

(* every id is registered and closed, and a further close has failed: a
   close of an account that was already closed *)
C8_Witness ==
    /\ last.op = "close_account"
    /\ last.result = "False"
    /\ \A id \in AccountIds : Registered(id) /\ ~accts[registry[id]].active

(* C9: once the account registered under an id is inactive, the account
   registered under that id is inactive in every later state. *)
C9_ClosedStaysClosed ==
    [][\A id \in DOMAIN registry :
          ~accts[registry[id]].active => ~accts'[registry'[id]].active]_vars

(* C10: no journal record has FEE-0001 as its source, so no transfer with
   debit id FEE-0001 has succeeded, and the balance held under FEE-0001
   never falls. *)
C10_FeeAccountNeverDebited ==
    [][/\ \A k \in 1..Len(journal') : journal'[k].from_account # FeeAccountId
       /\ (last'.op = "transfer" /\ last'.result = "True")
             => journal'[Len(journal) + 1].from_account # FeeAccountId
       /\ accts'[registry'[FeeAccountId]].balance
             >= accts[registry[FeeAccountId]].balance]_vars

(* C11: an identifier that is registered stays registered, and to the same
   account object, across every operation. *)
C11_RegistryEntriesKept ==
    [][\A id \in DOMAIN registry :
          /\ id \in DOMAIN registry'
          /\ registry'[id] = registry[id]]_vars

(* C12: no operation changes the balance or the history of an account that
   is inactive, and every inactive account has balance 0. *)
C12_InactiveUntouched ==
    [][\A i \in 1..Len(accts) :
          ~accts[i].active =>
              /\ accts'[i].balance = accts[i].balance
              /\ accts'[i].transactions = accts[i].transactions
              /\ accts'[i].balance = 0]_vars

(* the type names that are registered, compared without regard to case *)
RegisteredTypeName(t) == t \in {"youth", "Savings", "private"}

(* C13: open_account with an unregistered type name signals the error and
   leaves the whole bank state unchanged; with a registered type name it
   creates exactly one account, active, with balance 0 and empty history,
   registers it under the returned id and leaves every other entry, the
   journal and the clock alone. *)
C13_OpenAccount ==
    \A t \in TypeNames, id \in ExplicitIds :
        LET r == open_account(Bank, t, id) IN
        IF ~RegisteredTypeName(t)
        THEN r.result = "ValueError" /\ r.bank = Bank
        ELSE LET n == Len(accts) + 1 IN
             /\ r.result # "ValueError"
             /\ id # None => r.result = id
             /\ Len(r.bank.accts) = n
             /\ SubSeq(r.bank.accts, 1, n - 1) = accts
             /\ r.bank.accts[n].id = r.result
             /\ r.bank.accts[n].active
             /\ r.bank.accts[n].balance = 0
             /\ r.bank.accts[n].transactions = <<>>
             /\ DOMAIN r.bank.registry = DOMAIN registry \cup {r.result}
             /\ r.bank.registry[r.result] = n
             /\ \A other \in DOMAIN registry \ {r.result} :
                   r.bank.registry[other] = registry[other]
             /\ r.bank.journal = journal
             /\ r.bank.current_timestamp = current_timestamp

(* an unregistered type name was refused after accounts had been opened and
   money had been posted *)
C13_Witness ==
    /\ last.op = "open_account"
    /\ last.result = "ValueError"
    /\ Len(accts) >= 2
    /\ journal # <<>>

(* the last min(n, length) elements of seq, in their order *)
LastN(seq, n) ==
    LET k == IF n < Len(seq) THEN n ELSE Len(seq)
    IN [i \in 1..k |-> seq[Len(seq) - k + i]]

(* C14: for every count N >= 0 get_bank_transactions(N) returns exactly the
   last min(N, length) journal records in order, and
   get_account_transactions(id, N) the last min(N, length) entries of the
   account's history; without a count both return everything. *)
C14_QueriesReturnLastN ==
    /\ get_bank_transactions(Bank, <<>>) = journal
    /\ \A n \in 0..MaxCount :
          get_bank_transactions(Bank, <<n>>) = LastN(journal, n)
    /\ \A id \in DOMAIN registry :
          /\ get_account_transactions(Bank, id, <<>>).list
                = accts[registry[id]].transactions
          /\ \A n \in 0..MaxCount :
                get_account_transactions(Bank, id, <<n>>).list
                    = LastN(accts[registry[id]].transactions, n)

(* the places <<account object, position>> of the history entries that carry
   the timestamp ts *)
EntriesAt(ts) ==
    UNION { { <<i, p>> : p \in { q \in 1..Len(accts[i].transactions) :
                                    accts[i].transactions[q].timestamp = ts } } :
            i \in 1..Len(accts) }

EntryOf(place) == accts[place[1]].transactions[place[2]]

(* C15: every journal record has a positive amount and its own timestamp;
   a record between two accounts has exactly two history entries with its
   timestamp, -amount in the source account naming the destination and
   +amount in the destination account naming the source; a cash deposit has
   exactly one, +amount in the destination with no counterparty; and no
   history entry is without its journal record. *)
C15_EntriesMatchJournal ==
    /\ \A k \in 1..Len(journal) :
          LET J == journal[k]
              E == EntriesAt(J.timestamp)
          IN /\ J.amount > 0
             /\ \A m \in 1..Len(journal) : m # k => journal[m].timestamp # J.timestamp
             /\ IF J.from_account # None
                THEN /\ Cardinality(E) = 2
                     /\ \E d \in E, c \in E :
                           /\ d # c
                           /\ accts[d[1]].id = J.from_account
                           /\ EntryOf(d).amount = -J.amount
                           /\ EntryOf(d).counterparty = J.to_account
                           /\ accts[c[1]].id = J.to_account
                           /\ EntryOf(c).amount = J.amount
                           /\ EntryOf(c).counterparty = J.from_account
                ELSE /\ Cardinality(E) = 1
                     /\ \A c \in E :
                           /\ accts[c[1]].id = J.to_account
                           /\ EntryOf(c).amount = J.amount
                           /\ EntryOf(c).counterparty = None
    /\ \A i \in 1..Len(accts) : \A p \in 1..Len(accts[i].transactions) :
          \E k \in 1..Len(journal) :
              journal[k].timestamp = accts[i].transactions[p].timestamp

(* the journal holds a cash deposit and a transfer between two different
   accounts together with its fee record *)
C15_Witness ==
    /\ \E k \in 1..Len(journal) : journal[k].from_account = None
    /\ \E k \in 1..Len(journal) :
          /\ journal[k].from_account # None
          /\ journal[k].from_account # journal[k].to_account
          /\ journal[k].usage = "Miete"
    /\ \E k \in 1..Len(journal) : journal[k].usage = "Gebuehr: Miete"

(* C16: the clock starts at 0; at all times it equals the length of the
   journal and the i-th journal record has timestamp i; and the clock moves
   only in a deposit_cash or transfer that returned True, so that failing
   operations, open_account, close_account and the queries never advance it. *)
C16_ClockIsJournalLength ==
    /\ current_timestamp = 0
    /\ [](/\ current_timestamp = Len(journal)
          /\ \A i \in 1..Len(journal) : journal[i].timestamp = i)
    /\ [][current_timestamp' # current_timestamp =>
             /\ last'.op \in {"deposit_cash", "transfer"}
             /\ last'.result = "True"]_vars

(* operations have failed and queries have run after the clock had advanced:
   the last call is a failed transfer and the journal holds two records *)
C16_Witness ==
    /\ last.op = "transfer"
    /\ last.result = "False"
    /\ current_timestamp = 2
    /\ Len(journal) = 2

IsPrefix(s, t) ==
    /\ Len(s) <= Len(t)
    /\ \A i \in 1..Len(s) : t[i] = s[i]

(* C17: in every step the journal before is a prefix of the journal after,
   and the history of the account registered under each id before is a
   prefix of the history of the account registered under that id after. *)
C17_AppendOnly ==
    [][/\ IsPrefix(journal, journal')
       /\ \A id \in DOMAIN registry :
             /\ id \in DOMAIN registry'
             /\ IsPrefix(accts[registry[id]].transactions,
                         accts'[registry'[id]].transactions)]_vars

(* C18: the identifier that open_account would generate for a call without
   an explicit id is different from every identifier in the registry. *)
C18_GeneratedIdIsFresh == generate_account_id(Bank) \notin DOMAIN registry

RECURSIVE TotalBalance(_)
TotalBalance(A) ==
    IF A = <<>> THEN 0 ELSE A[1].balance + TotalBalance(Tail(A))

RECURSIVE CashDeposited(_)
CashDeposited(J) ==
    IF J = <<>> THEN 0
    ELSE (IF J[1].from_account = None THEN J[1].amount ELSE 0)
         + CashDeposited(Tail(J))

(* C19: every transfer, successful or failed, leaves the sum of the balances
   of all accounts ever created unchanged, and after any sequence of
   open_account, deposit_cash, transfer and close_account calls that sum
   equals the sum of the amounts of the successful cash deposits. *)
C19_MoneyConserved ==
    /\ [](TotalBalance(accts) = CashDeposited(journal))
    /\ [][last'.op = "transfer" =>
             TotalBalance(accts') = TotalBalance(accts)]_vars

(* a transfer from an account to itself has succeeded, with its fee, after a
   cash deposit *)
C19_Witness ==
    /\ last.op = "transfer"
    /\ last.result = "True"
    /\ \E k \in 1..Len(journal) : journal[k].from_account = None
    /\ \E k \in 1..Len(journal) :
          /\ journal[k].from_account = journal[k].to_account
          /\ journal[k].usage = "Miete"
    /\ \E k \in 1..Len(journal) : journal[k].usage = "Gebuehr: Miete"

====
